---- MODULE Spec2Model ----
(***************************************************************************)
(* Motion-smoothing core of the klipper chelper: the smoother kernel       *)
(* catalog (integrate.c), the axis smoothing wrapper with its windowed     *)
(* convolver (kin_smooth_axis: src/unnamed/part_001) and the extruder      *)
(* pressure-advance kinematics (kin_extruder.c); and the ADXL345           *)
(* measurement (src/unnamed/part_004, accel_values.c).                     *)
(*                                                                         *)
(* Doubles are modelled by integers.  Times of the axis handle are in      *)
(* microseconds, the catalog's half-smooth-times in nanoseconds (the       *)
(* catalog constants have nine decimals), the queue walk uses abstract     *)
(* ticks.  A C pointer is a record; the null pointer is NULL.              *)
(***************************************************************************)
EXTENDS Integers, Sequences, FiniteSets, TLC

VARIABLES
    sm_out,   \* integrate.c: outcome of the last alloc_smoother(type, f, zeta)
    sa,       \* part_001: the struct smooth_axis behind the handle
    sa_op,    \* part_001: the last call made on the handle, with its result
    es,       \* kin_extruder.c: the struct extruder_stepper
    tq,       \* kin_extruder.c: the moves handed to trapq_append, in order
    es_op,    \* kin_extruder.c: the last call made on the extruder, with its result
    w,        \* range_integrate / pa_range_integrate: locals of the running walk
    iw,       \* integrate.c: the last integrate_weighted call, with what it dispatched
    kh,       \* part_001: the handles allocated, their kernel pointers and the heap
    adxl      \* part_004: the running adxl345_measure call, its SPI transfers and buffer

vars == <<sm_out, sa, sa_op, es, tq, es_op, w, iw, kh, adxl>>

NULL == [null |-> TRUE]

(***************************************************************************)
(* integrate.c / integrate.h (accel_values.c:58-88): the kernel catalog    *)
(***************************************************************************)

\* enum SMOOTHER_TYPE
SIFP05 == 1
SIAF05 == 2
DFSF05 == 3
DFAF05 == 4
DFAF02 == 5
DFAF01 == 6

\* ARRAY_SIZE(init_smoother_callbacks): the largest designator is [DFAF01], so
\* the array has DFAF01 + 1 elements and element 0 is a null function pointer.
ARRAY_SIZE_init_smoother_callbacks == 7

init_smoother_callbacks ==
    [i \in 0..(ARRAY_SIZE_init_smoother_callbacks - 1) |->
        CASE i = SIFP05 -> "init_sifp_05"
          [] i = SIAF05 -> "init_siaf_05"
          [] i = DFSF05 -> "init_dfsf_05"
          [] i = DFAF05 -> "init_dfaf_05"
          [] i = DFAF02 -> "init_dfaf_02"
          [] i = DFAF01 -> "init_dfaf_01"
          [] OTHER -> "NULL"]

\* The init_* callbacks: integrate_cb, and hst = K / target_freq in nanoseconds.
\* The coefficients c0..c6 are the family's constants times powers of 1/hst;
\* they are carried by the name of the callback that set them.
init_smoother(cb, target_freq, damping_ratio) ==
    LET K == CASE cb = "init_sifp_05" -> 500000000
               [] cb = "init_siaf_05" -> 682156695
               [] cb = "init_dfsf_05" -> 879442505
               [] cb = "init_dfaf_05" -> 1089438525
               [] cb = "init_dfaf_02" -> 1282011392
               [] cb = "init_dfaf_01" -> 1727828982
        order == CASE cb \in {"init_sifp_05", "init_siaf_05"} -> "integrate_4th_order"
                   [] OTHER -> "integrate_6th_order"
    IN [null |-> FALSE, integrate_cb |-> order, hst |-> K \div target_freq,
        coefficients |-> cb]

\* What a call through the null function pointer init_smoother_callbacks[0] can
\* do (undefined behaviour): the process faults, or the call falls through and
\* the zero-filled kernel is returned.
NullCallOutcomes == {"fault", "zeroed"}

zeroed_smoother ==
    [null |-> FALSE, integrate_cb |-> "NULL", hst |-> 0, coefficients |-> "zero"]

\* alloc_smoother(smoother_type, target_freq, damping_ratio); ub picks the
\* outcome of undefined behaviour when the code runs into it.
alloc_smoother(smoother_type, target_freq, damping_ratio, ub) ==
    IF smoother_type >= ARRAY_SIZE_init_smoother_callbacks \/ smoother_type < 0
    THEN [outcome |-> "returned", ret |-> NULL, init_cb |-> "none"]
    ELSE LET cb == init_smoother_callbacks[smoother_type] IN
         IF cb = "NULL"
         THEN IF ub = "fault"
              THEN [outcome |-> "fault", ret |-> NULL, init_cb |-> "NULL"]
              ELSE [outcome |-> "returned", ret |-> zeroed_smoother, init_cb |-> "NULL"]
         ELSE [outcome |-> "returned",
               ret |-> init_smoother(cb, target_freq, damping_ratio),
               init_cb |-> cb]

\* Inputs of alloc_smoother: the tags around the table, frequencies in Hz,
\* damping ratios in hundredths.
MaxTagMargin == 2
SmootherTypes ==
    (0 - MaxTagMargin)..(ARRAY_SIZE_init_smoother_callbacks - 1 + MaxTagMargin)
CatalogFreqs == {20, 30, 40, 45, 50}
DampingRatios == {0, 10}

AllocSmoother ==
    /\ \E ty \in SmootherTypes, f \in CatalogFreqs, z \in DampingRatios,
          ub \in NullCallOutcomes :
          sm_out' = [called |-> TRUE, smoother_type |-> ty, target_freq |-> f,
                     damping_ratio |-> z,
                     res |-> alloc_smoother(ty, f, z, ub)]
    /\ UNCHANGED <<sa, sa_op, es, tq, es_op, w, iw, kh, adxl>>

\* sm->integrate_cb(sm, start, end, a0, a1, a2): the call dispatched to the
\* kernel's integrate_4th_order or integrate_6th_order, which read the
\* coefficients of the const smoother
integrate_cb(sm, start, end, a0, a1, a2) ==
    [cb |-> sm.integrate_cb, sm |-> sm, start |-> start, end |-> end,
     a0 |-> a0, a1 |-> a1, a2 |-> a2]

\* integrate_weighted folding toff with start_v updated before pos
integrate_weighted_start_v_first(sm, pos, start_v, half_accel, start, end, toff) ==
    LET start_v1 == start_v - 2 * half_accel * toff
        pos1 == pos + (half_accel * toff - start_v1) * toff
    IN  [sm |-> sm,
         call |-> integrate_cb(sm, start + toff, end + toff, pos1, start_v1,
                               half_accel)]

\* integrate_weighted(sm, pos, start_v, half_accel, start, end, toff): the
\* smoother after the call and the call it dispatches
integrate_weighted(sm, pos, start_v, half_accel, start, end, toff) ==
    LET pos1 == pos + (half_accel * toff - start_v) * toff
        start_v1 == start_v - 2 * half_accel * toff
        start1 == start + toff
        end1 == end + toff
    IN  [sm |-> sm,
         call |-> integrate_cb(sm, start1, end1, pos1, start_v1, half_accel)]

\* Inputs of integrate_weighted: kernels of the catalog and small quadratics
IntegrateSmoothers ==
    {init_smoother(init_smoother_callbacks[ty], 40, 0) : ty \in {SIAF05, DFAF05}}
IntegratePos == {-1, 0, 2}
IntegrateStartV == {-1, 0, 3}
IntegrateHalfAccel == {-2, 0, 1}
IntegrateStarts == {0, 1}
IntegrateLengths == {0, 2}
IntegrateToffs == {-3, -1, 0, 2}

IntegrateWeighted ==
    /\ \E sm \in IntegrateSmoothers, pos \in IntegratePos, start_v \in IntegrateStartV,
          half_accel \in IntegrateHalfAccel, start \in IntegrateStarts,
          len \in IntegrateLengths, toff \in IntegrateToffs :
          iw' = [name |-> "integrate_weighted", sm |-> sm, pos |-> pos,
                 start_v |-> start_v, half_accel |-> half_accel,
                 start |-> start, end |-> start + len, toff |-> toff,
                 res |-> integrate_weighted(sm, pos, start_v, half_accel,
                                            start, start + len, toff)]
    /\ UNCHANGED <<sm_out, sa, sa_op, es, tq, es_op, w, kh, adxl>>

(***************************************************************************)
(* itersolve.h / trapq.h (not among the sources): flags and move helpers   *)
(***************************************************************************)

\* Axis-use flags of a stepper_kinematics; active_flags is the set of flags.
AF_X == "x"
AF_Y == "y"
AF_Z == "z"

\* A coordinate read from a move, and move_get_coord for a move that
\* travels at cruise_v along axes_r.
Raw(n) == [raw |-> n]

move_get_distance(m, move_time) == m.cruise_v * move_time

move_get_coord(m, move_time) ==
    [a \in {"x", "y", "z"} |->
        Raw(m.start_pos[a] + m.axes_r[a] * move_get_distance(m, move_time))]

(***************************************************************************)
(* part_001 (kin_smooth_axis): the axis smoothing wrapper                  *)
(***************************************************************************)

\* #define DUMMY_T 500.0 (seconds), in microseconds
DUMMY_T == 500000000

\* alloc_smoother(target_freq, damping_ratio) of the compact 2nd-order kernel
\* (declared at accel_values.c:51): hst = (0.662586 - 0.0945695 zeta^2) / (2 f),
\* in microseconds; c1, c2 and h2 follow from hst and zeta.  It allocates,
\* and allocation failure aborts the process, so it does not return NULL.
alloc_smoother2(target_freq, damping_ratio) ==
    [null |-> FALSE, target_freq |-> target_freq, damping_ratio |-> damping_ratio,
     hst |-> (662586 - ((945695 * damping_ratio * damping_ratio) \div 100000))
                \div (2 * target_freq)]

\* calc_position(m, axis, move_time, sm) = range_integrate(m, axis, move_time, sm):
\* the smoothed coordinate, kept as the term that names its arguments.  The
\* walk that computes it is modelled by the Walk* actions below.
calc_position(m, axis, move_time, sm) ==
    [range_integrate |-> [m |-> m, axis |-> axis, move_time |-> move_time, sm |-> sm]]

\* sa->orig_sk->calc_position_cb(sa->orig_sk, m, move_time): the inner
\* kinematics is external; its result is the term that names its arguments.
orig_calc_position(orig_sk, m, move_time) ==
    [calc_position_cb |-> [sk |-> orig_sk, m |-> m, move_time |-> move_time]]

\* smooth_axis_alloc: memset 0, then m.move_t = 2 * DUMMY_T
smooth_axis_alloc ==
    [sk |-> [calc_position_cb |-> "NULL", active_flags |-> {},
             gen_steps_pre_active |-> 0, gen_steps_post_active |-> 0],
     orig_sk |-> NULL,
     x_smoother |-> NULL,
     y_smoother |-> NULL,
     m |-> [scratch |-> TRUE,
            start_pos |-> [a \in {"x", "y", "z"} |-> Raw(0)],
            move_t |-> 2 * DUMMY_T]]

\* smooth_axis_set_sk with the X test made before the XY test
set_sk_x_tested_first(h, orig_sk) ==
    LET af == orig_sk.active_flags \cap {AF_X, AF_Y}
        install(cb) ==
            [ret |-> 0,
             sa |-> [h EXCEPT !.sk.calc_position_cb = cb,
                              !.sk.active_flags = orig_sk.active_flags,
                              !.orig_sk = orig_sk]]
    IN  IF AF_X \in af THEN install("smooth_x_calc_position")
        ELSE IF af = {AF_X, AF_Y} THEN install("smooth_xy_calc_position")
        ELSE IF AF_Y \in af THEN install("smooth_y_calc_position")
        ELSE [ret |-> -1, sa |-> h]

\* smooth_axis_set_sk recording the inner kinematics before the dispatch
set_sk_records_first(h, orig_sk) ==
    LET af == orig_sk.active_flags \cap {AF_X, AF_Y}
        h1 == [h EXCEPT !.sk.active_flags = orig_sk.active_flags,
                        !.orig_sk = orig_sk]
        install(cb) == [ret |-> 0, sa |-> [h1 EXCEPT !.sk.calc_position_cb = cb]]
    IN  IF af = {AF_X, AF_Y} THEN install("smooth_xy_calc_position")
        ELSE IF AF_X \in af THEN install("smooth_x_calc_position")
        ELSE IF AF_Y \in af THEN install("smooth_y_calc_position")
        ELSE [ret |-> -1, sa |-> h1]

\* smooth_axis_set_sk: the return value and the handle afterwards
smooth_axis_set_sk(h, orig_sk) ==
    LET af == orig_sk.active_flags \cap {AF_X, AF_Y}
        install(cb) ==
            [ret |-> 0,
             sa |-> [h EXCEPT !.sk.calc_position_cb = cb,
                              !.sk.active_flags = orig_sk.active_flags,
                              !.orig_sk = orig_sk]]
    IN  IF af = {AF_X, AF_Y} THEN install("smooth_xy_calc_position")
        ELSE IF AF_X \in af THEN install("smooth_x_calc_position")
        ELSE IF AF_Y \in af THEN install("smooth_y_calc_position")
        ELSE [ret |-> -1, sa |-> h]

\* smooth_axis_set_params taking the Y kernel's hst without comparing it
set_params_y_overrides(h, target_freq_x, target_freq_y, damping_ratio_x, damping_ratio_y) ==
    LET xs == IF target_freq_x # 0
              THEN alloc_smoother2(target_freq_x, damping_ratio_x) ELSE NULL
        ys == IF target_freq_y # 0
              THEN alloc_smoother2(target_freq_y, damping_ratio_y) ELSE NULL
        hst1 == IF AF_X \in h.sk.active_flags /\ xs # NULL THEN xs.hst ELSE 0
        hst2 == IF AF_Y \in h.sk.active_flags /\ ys # NULL THEN ys.hst ELSE hst1
    IN  [h EXCEPT !.x_smoother = xs,
                  !.y_smoother = ys,
                  !.sk.gen_steps_pre_active = hst2,
                  !.sk.gen_steps_post_active = hst2]

\* smooth_axis_set_params: the handle afterwards
smooth_axis_set_params(h, target_freq_x, target_freq_y, damping_ratio_x, damping_ratio_y) ==
    LET xs == IF target_freq_x # 0
              THEN alloc_smoother2(target_freq_x, damping_ratio_x) ELSE NULL
        ys == IF target_freq_y # 0
              THEN alloc_smoother2(target_freq_y, damping_ratio_y) ELSE NULL
        hst0 == 0
        hst1 == IF AF_X \in h.sk.active_flags /\ xs # NULL THEN xs.hst ELSE hst0
        hst2 == IF AF_Y \in h.sk.active_flags /\ ys # NULL
                THEN (IF ys.hst > hst1 THEN ys.hst ELSE hst1)
                ELSE hst1
    IN  [h EXCEPT !.x_smoother = xs,
                  !.y_smoother = ys,
                  !.sk.gen_steps_pre_active = hst2,
                  !.sk.gen_steps_post_active = hst2]

\* smooth_axis_get_half_smooth_time
smooth_axis_get_half_smooth_time(target_freq, damping_ratio) ==
    LET sm == alloc_smoother2(target_freq, damping_ratio)
    IN  IF sm = NULL THEN 0 ELSE sm.hst

\* A query returns the inner kinematics' result; calls lists the calls made
\* to the inner kinematics and sa is the handle afterwards.
Delegate(h, m, move_time) ==
    [ret |-> orig_calc_position(h.orig_sk, m, move_time),
     calls |-> <<[m |-> m, move_time |-> move_time]>>,
     sa |-> h]

ViaScratch(h2) ==
    [ret |-> orig_calc_position(h2.orig_sk, h2.m, DUMMY_T),
     calls |-> <<[m |-> h2.m, move_time |-> DUMMY_T]>>,
     sa |-> h2]

smooth_x_calc_position(h, m, move_time) ==
    IF h.x_smoother = NULL
    THEN Delegate(h, m, move_time)
    ELSE ViaScratch([h EXCEPT !.m.start_pos["x"] =
                        calc_position(m, "x", move_time, h.x_smoother)])

smooth_y_calc_position(h, m, move_time) ==
    IF h.y_smoother = NULL
    THEN Delegate(h, m, move_time)
    ELSE ViaScratch([h EXCEPT !.m.start_pos["y"] =
                        calc_position(m, "y", move_time, h.y_smoother)])

\* smooth_xy_calc_position delegating as soon as the X kernel is missing
xy_calc_position_checks_x_only(h, m, move_time) ==
    IF h.x_smoother = NULL
    THEN Delegate(h, m, move_time)
    ELSE LET h1 == [h EXCEPT !.m.start_pos = move_get_coord(m, move_time)]
             h2 == [h1 EXCEPT !.m.start_pos["x"] =
                        calc_position(m, "x", move_time, h1.x_smoother)]
             h3 == IF h2.y_smoother # NULL
                   THEN [h2 EXCEPT !.m.start_pos["y"] =
                            calc_position(m, "y", move_time, h2.y_smoother)]
                   ELSE h2
         IN  ViaScratch(h3)

smooth_xy_calc_position(h, m, move_time) ==
    IF h.x_smoother = NULL /\ h.y_smoother = NULL
    THEN Delegate(h, m, move_time)
    ELSE LET h1 == [h EXCEPT !.m.start_pos = move_get_coord(m, move_time)]
             h2 == IF h1.x_smoother # NULL
                   THEN [h1 EXCEPT !.m.start_pos["x"] =
                            calc_position(m, "x", move_time, h1.x_smoother)]
                   ELSE h1
             h3 == IF h2.y_smoother # NULL
                   THEN [h2 EXCEPT !.m.start_pos["y"] =
                            calc_position(m, "y", move_time, h2.y_smoother)]
                   ELSE h2
         IN  ViaScratch(h3)

\* sk->calc_position_cb(sk, m, move_time), as the step solver calls it
sk_calc_position(h, m, move_time) ==
    CASE h.sk.calc_position_cb = "smooth_x_calc_position" ->
            smooth_x_calc_position(h, m, move_time)
      [] h.sk.calc_position_cb = "smooth_y_calc_position" ->
            smooth_y_calc_position(h, m, move_time)
      [] h.sk.calc_position_cb = "smooth_xy_calc_position" ->
            smooth_xy_calc_position(h, m, move_time)

\* Inputs of the handle's operations: the inner kinematics (one per set of
\* axis-use flags), frequencies in Hz (0 disables), damping ratios in
\* hundredths, and the solver's queries (a move and a move-local time).
OrigSks == {[null |-> FALSE, active_flags |-> f] : f \in SUBSET {AF_X, AF_Y, AF_Z}}
TargetFreqs == {0, 45}
AxisDampingRatios == {0, 10}
QueryMoves ==
    {[scratch |-> FALSE,
      start_pos |-> [x |-> 10, y |-> 20, z |-> 5],
      axes_r |-> [x |-> 1, y |-> 2, z |-> 0],
      cruise_v |-> 3,
      move_t |-> 4]}
QueryTimes == {0, 2}

AxisIdle == <<sm_out, es, tq, es_op, w, iw, kh, adxl>>

SetSk ==
    /\ \E orig_sk \in OrigSks :
          LET r == smooth_axis_set_sk(sa, orig_sk) IN
          /\ sa' = r.sa
          /\ sa_op' = [name |-> "set_sk", orig_sk |-> orig_sk, ret |-> r.ret]
    /\ UNCHANGED AxisIdle

SetParams ==
    /\ \E fx \in TargetFreqs, fy \in TargetFreqs,
          zx \in AxisDampingRatios, zy \in AxisDampingRatios :
          /\ sa' = smooth_axis_set_params(sa, fx, fy, zx, zy)
          /\ sa_op' = [name |-> "set_params", target_freq_x |-> fx,
                       target_freq_y |-> fy, damping_ratio_x |-> zx,
                       damping_ratio_y |-> zy]
    /\ UNCHANGED AxisIdle

GetHalfSmoothTime ==
    /\ \E f \in TargetFreqs \ {0}, z \in AxisDampingRatios :
          sa_op' = [name |-> "get_half_smooth_time", target_freq |-> f,
                    damping_ratio |-> z,
                    ret |-> smooth_axis_get_half_smooth_time(f, z)]
    /\ UNCHANGED <<sa>>
    /\ UNCHANGED AxisIdle

\* The step solver queries a handle whose inner kinematics has been set.
CalcPosition ==
    /\ sa.sk.calc_position_cb # "NULL"
    /\ \E m \in QueryMoves, move_time \in QueryTimes :
          LET r == sk_calc_position(sa, m, move_time) IN
          /\ sa' = r.sa
          /\ sa_op' = [name |-> "calc_position", m |-> m, move_time |-> move_time,
                       calls |-> r.calls, ret |-> r.ret]
    /\ UNCHANGED AxisIdle

(***************************************************************************)
(* part_001: ownership of the kernels.  Several handles share the heap.  A *)
(* kernel pointer is the number of the allocation it refers to (0 is the   *)
(* null pointer); allocs lists the allocations made so far, each with the  *)
(* caller that made it and the number of times it was passed to free.      *)
(***************************************************************************)

Handles == {1, 2}
MaxAllocs == 5

\* free(p)
free(allocs, p) ==
    IF p = 0 THEN allocs ELSE [allocs EXCEPT ![p].frees = @ + 1]

\* malloc within alloc_smoother(target_freq, damping_ratio), called by `by`
malloc_smoother(allocs, by, sm) ==
    Append(allocs, [by |-> by, frees |-> 0, sm |-> sm])

\* The kernels of smooth_axis_set_params without free(sa->y_smoother)
set_params_kernels_keeps_y(allocs, ptr, by, target_freq_x, target_freq_y, damping_ratio_x, damping_ratio_y) ==
    LET a1 == free(allocs, ptr.x_smoother)
        a3 == IF target_freq_x # 0
              THEN malloc_smoother(a1, by, alloc_smoother2(target_freq_x, damping_ratio_x))
              ELSE a1
        px == IF target_freq_x # 0 THEN Len(a3) ELSE 0
        a4 == IF target_freq_y # 0
              THEN malloc_smoother(a3, by, alloc_smoother2(target_freq_y, damping_ratio_y))
              ELSE a3
        py == IF target_freq_y # 0 THEN Len(a4) ELSE 0
    IN  [allocs |-> a4, ptr |-> [x_smoother |-> px, y_smoother |-> py]]

\* The kernels of smooth_axis_set_params (part_001:125-130): both pointers are
\* freed, then each is set to a new kernel or to NULL
set_params_kernels(allocs, ptr, by, target_freq_x, target_freq_y, damping_ratio_x, damping_ratio_y) ==
    LET a1 == free(allocs, ptr.x_smoother)
        a2 == free(a1, ptr.y_smoother)
        a3 == IF target_freq_x # 0
              THEN malloc_smoother(a2, by, alloc_smoother2(target_freq_x, damping_ratio_x))
              ELSE a2
        px == IF target_freq_x # 0 THEN Len(a3) ELSE 0
        a4 == IF target_freq_y # 0
              THEN malloc_smoother(a3, by, alloc_smoother2(target_freq_y, damping_ratio_y))
              ELSE a3
        py == IF target_freq_y # 0 THEN Len(a4) ELSE 0
    IN  [allocs |-> a4, ptr |-> [x_smoother |-> px, y_smoother |-> py]]

\* The kernel of smooth_axis_get_half_smooth_time: allocated for no handle
\* (caller 0), read, freed
get_half_smooth_time_kernels(allocs, target_freq, damping_ratio) ==
    LET a1 == malloc_smoother(allocs, 0, alloc_smoother2(target_freq, damping_ratio))
    IN  free(a1, Len(a1))

\* The kernel pointers a query on handle h dereferences
QueryDerefs(h, ptr) ==
    LET cb == h.sk.calc_position_cb IN
    {p \in {ptr.x_smoother} :
        p # 0 /\ cb \in {"smooth_x_calc_position", "smooth_xy_calc_position"}}
    \cup
    {p \in {ptr.y_smoother} :
        p # 0 /\ cb \in {"smooth_y_calc_position", "smooth_xy_calc_position"}}

KernelOrigSks == {o \in OrigSks : o.active_flags = {AF_X, AF_Y}}
KernelDampingRatios == {0}
KernelQueryTimes == {2}

KernelsIdle == <<sm_out, sa, sa_op, es, tq, es_op, w, iw, adxl>>

\* smooth_axis_set_params on one of the handles
KernelSetParams ==
    /\ \E h \in Handles, fx \in TargetFreqs, fy \in TargetFreqs,
          z \in KernelDampingRatios :
          /\ Len(kh.allocs) + (IF fx # 0 THEN 1 ELSE 0) + (IF fy # 0 THEN 1 ELSE 0)
                <= MaxAllocs
          /\ LET k == set_params_kernels(kh.allocs, kh.ptr[h], h, fx, fy, z, z) IN
             kh' = [kh EXCEPT !.sa[h] = smooth_axis_set_params(@, fx, fy, z, z),
                              !.ptr[h] = k.ptr,
                              !.allocs = k.allocs]
    /\ UNCHANGED KernelsIdle

\* smooth_axis_get_half_smooth_time
KernelGetHalfSmoothTime ==
    /\ Len(kh.allocs) + 1 <= MaxAllocs
    /\ \E f \in TargetFreqs \ {0}, z \in KernelDampingRatios :
          kh' = [kh EXCEPT !.allocs = get_half_smooth_time_kernels(@, f, z)]
    /\ UNCHANGED KernelsIdle

\* smooth_axis_set_sk on one of the handles
KernelSetSk ==
    /\ \E h \in Handles, orig_sk \in KernelOrigSks :
          kh' = [kh EXCEPT !.sa[h] = smooth_axis_set_sk(@, orig_sk).sa]
    /\ UNCHANGED KernelsIdle

\* A query between two calls: it runs to completion and reads the kernels the
\* handle points to; stale records whether a freed kernel was ever read.
KernelQuery ==
    /\ \E h \in Handles, m \in QueryMoves, move_time \in KernelQueryTimes :
          /\ kh.sa[h].sk.calc_position_cb # "NULL"
          /\ kh' = [kh EXCEPT
                      !.sa[h] = sk_calc_position(@, m, move_time).sa,
                      !.stale = @ \/ \E p \in QueryDerefs(kh.sa[h], kh.ptr[h]) :
                                        kh.allocs[p].frees # 0]
    /\ UNCHANGED KernelsIdle

(***************************************************************************)
(* kin_extruder.c: the extruder stepper and extruder_add_move              *)
(***************************************************************************)

\* A double that is a quotient: 1. / (hst * hst)
Quot(n, d) == [num |-> n, den |-> d]

\* extruder_stepper_alloc: memset 0, then the callback and AF_X
extruder_stepper_alloc ==
    [sk |-> [calc_position_cb |-> "extruder_calc_position", active_flags |-> {AF_X},
             gen_steps_pre_active |-> 0, gen_steps_post_active |-> 0],
     half_smooth_time |-> 0,
     inv_half_smooth_time2 |-> Quot(0, 1)]

\* extruder_set_smooth_time; smooth_time is an even number of ticks, so that
\* smooth_time * .5 is a whole number of ticks
extruder_set_smooth_time(e, smooth_time) ==
    LET hst == smooth_time \div 2
        e1 == [e EXCEPT !.half_smooth_time = hst,
                        !.sk.gen_steps_pre_active = hst,
                        !.sk.gen_steps_post_active = hst]
    IN  IF hst = 0 THEN e1
        ELSE [e1 EXCEPT !.inv_half_smooth_time2 = Quot(1, hst * hst)]

\* pa_range_integrate(m, move_time, hst): the integral over the window, kept
\* as the term that names its arguments.  The walk that computes it is
\* modelled by the Walk* actions below.
pa_range_integrate(m, move_time, hst) ==
    [pa_range_integrate |-> [m |-> m, move_time |-> move_time, hst |-> hst]]

\* extruder_calc_position testing the cached 1/hst^2 instead of hst
calc_position_tests_inv_hst2(e, m, move_time) ==
    LET hst == e.half_smooth_time IN
    IF e.inv_half_smooth_time2.num = 0
    THEN [ret |-> Raw(m.start_pos["x"] + move_get_distance(m, move_time)),
          integrations |-> <<>>]
    ELSE LET area == pa_range_integrate(m, move_time, hst) IN
         [ret |-> [area |-> area, times |-> e.inv_half_smooth_time2],
          integrations |-> <<area>>]

\* extruder_calc_position: the value returned, and the integrations over the
\* move queue it ran
extruder_calc_position(e, m, move_time) ==
    LET hst == e.half_smooth_time IN
    IF hst = 0
    THEN [ret |-> Raw(m.start_pos["x"] + move_get_distance(m, move_time)),
          integrations |-> <<>>]
    ELSE LET area == pa_range_integrate(m, move_time, hst) IN
         [ret |-> [area |-> area, times |-> e.inv_half_smooth_time2],
          integrations |-> <<area>>]

\* trapq_append (trapq.c, not among the sources): the move it links at the
\* tail of the queue starts at print_time at the given position, with the
\* given axis ratios and a copy of the trapezoid.
trapq_append(q, print_time, start_pos_x, start_pos_y, start_pos_z, axes_r_x, axes_r_y, axes_r_z, accel_decel) ==
    Append(q, [print_time |-> print_time,
               start_pos |-> [x |-> start_pos_x, y |-> start_pos_y, z |-> start_pos_z],
               axes_r |-> [x |-> axes_r_x, y |-> axes_r_y, z |-> axes_r_z],
               accel_decel |-> accel_decel,
               cruise_v |-> accel_decel.cruise_v])

\* The print_time adjustment with the deceleration case tested first
adjusted_print_time_decel_first(print_time, accel_decel) ==
    IF accel_decel.total_decel_t # 0
    THEN print_time + accel_decel.uncomp_decel_offset_t - accel_decel.decel_offset_t
    ELSE IF accel_decel.total_accel_t # 0
    THEN print_time + accel_decel.uncomp_accel_offset_t - accel_decel.accel_offset_t
    ELSE print_time

\* extruder_add_move, first part: print_time adjusted for acceleration
\* compensation
adjusted_print_time(print_time, accel_decel) ==
    IF accel_decel.total_accel_t # 0
    THEN print_time + accel_decel.uncomp_accel_offset_t - accel_decel.accel_offset_t
    ELSE IF accel_decel.total_decel_t # 0
    THEN print_time + accel_decel.uncomp_decel_offset_t - accel_decel.decel_offset_t
    ELSE print_time

\* The extruder's trap_accel_decel with decel_offset_t left compensated
extruder_accel_decel_keeps_decel_offset(extrude_r, accel_decel) ==
    [accel_decel EXCEPT
        !.accel_comp = 0,
        !.accel_t = accel_decel.uncomp_accel_t,
        !.accel_offset_t = accel_decel.uncomp_accel_offset_t,
        !.decel_t = accel_decel.uncomp_decel_t,
        !.start_accel_v = accel_decel.start_accel_v * extrude_r,
        !.cruise_v = accel_decel.cruise_v * extrude_r,
        !.effective_accel = accel_decel.effective_accel * extrude_r,
        !.effective_decel = accel_decel.effective_decel * extrude_r]

\* extruder_add_move, second part: the trap_accel_decel generated for the
\* extruder
extruder_accel_decel(extrude_r, accel_decel) ==
    [accel_decel EXCEPT
        !.accel_comp = 0,
        !.accel_t = accel_decel.uncomp_accel_t,
        !.accel_offset_t = accel_decel.uncomp_accel_offset_t,
        !.decel_t = accel_decel.uncomp_decel_t,
        !.decel_offset_t = accel_decel.uncomp_decel_offset_t,
        !.start_accel_v = accel_decel.start_accel_v * extrude_r,
        !.cruise_v = accel_decel.cruise_v * extrude_r,
        !.effective_accel = accel_decel.effective_accel * extrude_r,
        !.effective_decel = accel_decel.effective_decel * extrude_r]

\* extruder_add_move: the queue afterwards, and the caller's (const)
\* accel_decel record, which is copied before it is changed
extruder_add_move(q, print_time, start_e_pos, extrude_r, pressure_advance, accel_decel) ==
    [tq |-> trapq_append(q, adjusted_print_time(print_time, accel_decel),
                         start_e_pos, 0, 0,
                         1, pressure_advance, 0,
                         extruder_accel_decel(extrude_r, accel_decel)),
     accel_decel |-> accel_decel]

\* Inputs of the extruder's operations.  A planner trapezoid is given by
\* whether its move group accelerates and decelerates and by its
\* acceleration compensation; the compensated times differ from the
\* uncompensated ones when accel_comp is non-zero.
MaxHalfSmoothTime == 2
MaxTrapqLen == 2
SmoothTimes == {2 * k : k \in 0..MaxHalfSmoothTime}
PlannerTrapezoid(accel, decel, comp) ==
    [accel_comp |-> comp,
     total_accel_t |-> IF accel THEN 8 ELSE 0,
     total_decel_t |-> IF decel THEN 6 ELSE 0,
     accel_t |-> IF accel THEN 4 - comp ELSE 0,
     accel_offset_t |-> IF accel THEN 2 - comp ELSE 0,
     uncomp_accel_t |-> IF accel THEN 4 ELSE 0,
     uncomp_accel_offset_t |-> IF accel THEN 2 ELSE 0,
     decel_t |-> IF decel THEN 3 + 2 * comp ELSE 0,
     decel_offset_t |-> IF decel THEN 1 + 2 * comp ELSE 0,
     uncomp_decel_t |-> IF decel THEN 3 ELSE 0,
     uncomp_decel_offset_t |-> IF decel THEN 1 ELSE 0,
     start_accel_v |-> 7,
     cruise_v |-> 11,
     effective_accel |-> 13,
     effective_decel |-> 17]
PlannerTrapezoids ==
    {PlannerTrapezoid(a, d, c) : a \in BOOLEAN, d \in BOOLEAN, c \in {0, 1}}
PrintTimes == {100}
StartEPos == {9}
ExtrudeRs == {2}
PressureAdvances == {0, 5}
ExtruderQueryTimes == {0, 3}

ExtruderIdle == <<sm_out, sa, sa_op, w, iw, kh, adxl>>

ExtruderSetSmoothTime ==
    /\ \E smooth_time \in SmoothTimes :
          /\ es' = extruder_set_smooth_time(es, smooth_time)
          /\ es_op' = [name |-> "set_smooth_time", smooth_time |-> smooth_time]
    /\ UNCHANGED tq
    /\ UNCHANGED ExtruderIdle

ExtruderAddMove ==
    /\ Len(tq) < MaxTrapqLen
    /\ \E print_time \in PrintTimes, start_e_pos \in StartEPos,
          extrude_r \in ExtrudeRs, pressure_advance \in PressureAdvances,
          accel_decel \in PlannerTrapezoids :
          LET r == extruder_add_move(tq, print_time, start_e_pos, extrude_r,
                                     pressure_advance, accel_decel) IN
          /\ tq' = r.tq
          /\ es_op' = [name |-> "add_move", print_time |-> print_time,
                       start_e_pos |-> start_e_pos, extrude_r |-> extrude_r,
                       pressure_advance |-> pressure_advance,
                       accel_decel |-> accel_decel,
                       accel_decel_after |-> r.accel_decel]
    /\ UNCHANGED es
    /\ UNCHANGED ExtruderIdle

\* The step solver queries a move of the extruder's queue.
ExtruderCalcPosition ==
    /\ \E i \in 1..Len(tq), move_time \in ExtruderQueryTimes :
          LET r == extruder_calc_position(es, tq[i], move_time) IN
          es_op' = [name |-> "calc_position", m |-> tq[i], move_time |-> move_time,
                    ret |-> r.ret, integrations |-> r.integrations]
    /\ UNCHANGED <<es, tq>>
    /\ UNCHANGED ExtruderIdle

(***************************************************************************)
(* part_001 range_integrate and kin_extruder.c pa_range_integrate: the     *)
(* walk over the move queue.  The queue is the sequence of the moves'      *)
(* move_t, a move is its index; a call is the interval handed to the       *)
(* integrator for one move, with its time offset.                          *)
(***************************************************************************)

\* struct smoother of the compact 2nd-order kernel (accel_values.c:46-49) with
\* half-smooth-time hst, in ticks: h2 = hst^2.
WalkSmoother(hst) == [null |-> FALSE, hst |-> hst, h2 |-> hst * hst]

\* integrate_weighted choosing Expansion A only strictly inside the window
integrate_weighted_scurve_strict(sm, m, start, end, toff) ==
    [m |-> m, start |-> start, end |-> end, time_offset |-> toff,
     expansion |-> IF toff * toff < sm.h2 THEN "A" ELSE "B"]

\* integrate_weighted(sm, pos, s, start, end, toff) of the S-curve variant
\* (declared at accel_values.c:52-54): pos and s are those of move m.  It
\* expands w around the move (Expansion A) when toff^2 <= h^2, and the move
\* polynomial around the window (Expansion B) otherwise; the value is the
\* term that names the integral and the expansion that computes it.
integrate_weighted_scurve(sm, m, start, end, toff) ==
    [m |-> m, start |-> start, end |-> end, time_offset |-> toff,
     expansion |-> IF toff * toff <= sm.h2 THEN "A" ELSE "B"]

\* move_integrate without the clamp of end to the move's duration
move_integrate_end_unclamped(q, m, start, end, time_offset, sm) ==
    integrate_weighted_scurve(sm, m, IF start < 0 THEN 0 ELSE start, end,
                              time_offset)

\* move_integrate: clamps the interval and passes it to integrate_weighted
move_integrate(q, m, start, end, time_offset, sm) ==
    integrate_weighted_scurve(sm, m,
                              IF start < 0 THEN 0 ELSE start,
                              IF end > q[m] THEN q[m] ELSE end,
                              time_offset)

\* Sum of move_t over the moves a..b of the queue
RECURSIVE SumMoveT(_, _, _)
SumMoveT(q, a, b) == IF a > b THEN 0 ELSE q[a] + SumMoveT(q, a + 1, b)

\* The extruder's struct move number m of queue q on the trajectory traj,
\* which starts at traj.start_e_pos and travels at traj.cruise_v: its S-curve
\* is s(tau) = c1 * tau, its start_pos.x the position where the previous move
\* ended, its axes_r.y the pressure-advance factor (extruder_add_move).
ExtruderMove(q, m, traj) ==
    [move_t |-> q[m],
     start_pos |-> [x |-> traj.start_e_pos + traj.cruise_v * SumMoveT(q, 1, m - 1)],
     axes_r |-> [x |-> 1, y |-> traj.pressure_advance],
     s |-> [c1 |-> traj.cruise_v]]

\* scurve.c (not among the sources), for s(tau) = c1 * tau.  Integrals are
\* exact multiples of 1/6 here; every value below is in sixths.
\* scurve_diff: s(end) - s(start)
scurve_diff(s, start, end) == 6 * s.c1 * (end - start)
\* scurve_integrate: the integral of s over [start, end]
scurve_integrate(s, start, end) == 3 * s.c1 * (end * end - start * start)
\* scurve_integrate_t: the integral of tau * s(tau)
scurve_integrate_t(s, start, end) ==
    2 * s.c1 * (end * end * end - start * start * start)
\* scurve_deriv_t_integrate: the integral of tau * s'(tau)
scurve_deriv_t_integrate(s, start, end) == 3 * s.c1 * (end * end - start * start)

\* extruder_integrate: integral of base + s(t) + pa * s'(t), in sixths
extruder_integrate(m, start, end) ==
    LET pressure_advance == m.axes_r.y
        pa_add == pressure_advance * scurve_diff(m.s, start, end)
        base == 6 * m.start_pos.x * (end - start)
        integral == scurve_integrate(m.s, start, end)
    IN  base + integral + pa_add

\* extruder_integrate_time without the pressure-advance term
extruder_integrate_time_no_pa(m, start, end) ==
    LET base == 3 * m.start_pos.x * (end * end - start * start)
        integral == scurve_integrate_t(m.s, start, end)
    IN  base + integral

\* extruder_integrate_time: integral of t * (base + s(t) + pa * s'(t)), in
\* sixths
extruder_integrate_time(m, start, end) ==
    LET pressure_advance == m.axes_r.y
        pa_add == pressure_advance * scurve_deriv_t_integrate(m.s, start, end)
        base == 3 * m.start_pos.x * (end * end - start * start)
        integral == scurve_integrate_t(m.s, start, end)
    IN  base + integral + pa_add

\* pa_move_integrate on move m of queue q: the clamped interval, and the value
\* wgt_ext - time_offset * iext in sixths
pa_move_integrate(q, m, start, end, time_offset, traj) ==
    LET start1 == IF start < 0 THEN 0 ELSE start
        end1 == IF end > q[m] THEN q[m] ELSE end
        mv == ExtruderMove(q, m, traj)
        iext == extruder_integrate(mv, start1, end1)
        wgt_ext == extruder_integrate_time(mv, start1, end1)
    IN  [m |-> m, start |-> start1, end |-> end1, time_offset |-> time_offset,
         value |-> wgt_ext - time_offset * iext]

list_prev_entry(m) == m - 1
list_next_entry(m) == m + 1

\* The solver keeps every move the window touches allocated and linked.
WindowInQueue(q, m, move_time, hst) ==
    /\ SumMoveT(q, 1, m - 1) + move_time >= hst
    /\ SumMoveT(q, m + 1, Len(q)) + (q[m] - move_time) >= hst

MaxQueueLen == 4
MaxMoveT == 2
MaxHst == 3

RECURSIVE Queues(_)
Queues(n) ==
    IF n = 0 THEN {<<>>}
    ELSE LET shorter == Queues(n - 1) IN
         shorter \cup {Append(q, t) : q \in {s \in shorter : Len(s) = n - 1},
                                      t \in 1..MaxMoveT}

\* Cruise trajectories of the extruder: start position, velocity and
\* pressure-advance factor
Trajectories ==
    [start_e_pos : {9}, cruise_v : {0, 3}, pressure_advance : {0, 5}]

WalkIdle == <<sm_out, sa, sa_op, es, tq, es_op, iw, kh, adxl>>

\* range_integrate, up to the first loop (part_001:40-44)
RangeIntegrateBegin ==
    /\ w.pc = "idle"
    /\ \E q \in Queues(MaxQueueLen) \ {<<>>}, hst \in 1..MaxHst :
       \E m \in 1..Len(q) :
       \E move_time \in 0..q[m] :
          /\ WindowInQueue(q, m, move_time, hst)
          /\ LET start == move_time - hst
                 end == move_time + hst
                 offset == 0 - move_time
             IN w' = [pc |-> "prev", fn |-> "range_integrate", q |-> q, m0 |-> m,
                      move_time |-> move_time, hst |-> hst,
                      start |-> start, end |-> end, offset |-> offset,
                      prev |-> m, m |-> m,
                      calls |-> <<move_integrate(q, m, start, end, offset,
                                                     WalkSmoother(hst))>>]
    /\ UNCHANGED WalkIdle

\* pa_range_integrate, up to the first loop (kin_extruder.c:74-78); it is
\* called with hst # 0 only
PaRangeIntegrateBegin ==
    /\ w.pc = "idle"
    /\ \E q \in Queues(MaxQueueLen) \ {<<>>}, hst \in 1..MaxHst, traj \in Trajectories :
       \E m \in 1..Len(q) :
       \E move_time \in 0..q[m] :
          /\ WindowInQueue(q, m, move_time, hst)
          /\ LET start == move_time - hst
                 end == move_time + hst
                 c1 == pa_move_integrate(q, m, start, move_time, start, traj)
                 c2 == pa_move_integrate(q, m, move_time, end, end, traj)
             IN w' = [pc |-> "prev", fn |-> "pa_range_integrate", q |-> q, m0 |-> m,
                      move_time |-> move_time, hst |-> hst,
                      start |-> start, end |-> end, offset |-> 0,
                      prev |-> m, m |-> m,
                      calls |-> <<c1, c2>>,
                      traj |-> traj,
                      res |-> c1.value - c2.value]
    /\ UNCHANGED WalkIdle

\* The backward loop stepping from the current move instead of from prev
WalkPrev_from_current ==
    /\ w.pc = "prev"
    /\ w.start < 0
    /\ LET prev == list_prev_entry(w.m0)
           start == w.start + w.q[prev]
       IN  IF w.fn = "range_integrate"
           THEN LET offset == w.offset - w.q[prev] IN
                w' = [w EXCEPT !.prev = prev, !.start = start, !.offset = offset,
                        !.calls = Append(@, move_integrate(w.q, prev, start,
                                                           w.q[prev], offset,
                                                           WalkSmoother(w.hst)))]
           ELSE LET c == pa_move_integrate(w.q, prev, start, w.q[prev], start,
                                           w.traj) IN
                w' = [w EXCEPT !.prev = prev, !.start = start,
                        !.calls = Append(@, c), !.res = @ + c.value]
    /\ UNCHANGED WalkIdle

\* One iteration of "while (start < 0.)"
WalkPrev ==
    /\ w.pc = "prev"
    /\ w.start < 0
    /\ LET prev == list_prev_entry(w.prev)
           start == w.start + w.q[prev]
       IN  IF w.fn = "range_integrate"
           THEN LET offset == w.offset - w.q[prev] IN
                w' = [w EXCEPT !.prev = prev, !.start = start, !.offset = offset,
                        !.calls = Append(@, move_integrate(w.q, prev, start,
                                                           w.q[prev], offset,
                                                           WalkSmoother(w.hst)))]
           ELSE LET c == pa_move_integrate(w.q, prev, start, w.q[prev], start,
                                                   w.traj) IN
                w' = [w EXCEPT !.prev = prev, !.start = start,
                        !.calls = Append(@, c), !.res = @ + c.value]
    /\ UNCHANGED WalkIdle

\* Leaving the first loop without the reset of offset
WalkPrevDone_keeps_offset ==
    /\ w.pc = "prev"
    /\ ~(w.start < 0)
    /\ w' = [w EXCEPT !.pc = "next"]
    /\ UNCHANGED WalkIdle

\* Leaving the first loop; range_integrate resets offset (part_001:52)
WalkPrevDone ==
    /\ w.pc = "prev"
    /\ ~(w.start < 0)
    /\ w' = [w EXCEPT !.pc = "next",
                      !.offset = IF w.fn = "range_integrate"
                                 THEN 0 - w.move_time ELSE @]
    /\ UNCHANGED WalkIdle

\* One iteration of "while (end > m->move_t)"
WalkNext ==
    /\ w.pc = "next"
    /\ w.end > w.q[w.m]
    /\ LET end == w.end - w.q[w.m]
           m == list_next_entry(w.m)
       IN  IF w.fn = "range_integrate"
           THEN LET offset == w.offset + w.q[w.m] IN
                w' = [w EXCEPT !.end = end, !.offset = offset, !.m = m,
                        !.calls = Append(@, move_integrate(w.q, m, 0, end, offset,
                                                           WalkSmoother(w.hst)))]
           ELSE LET c == pa_move_integrate(w.q, m, 0, end, end, w.traj) IN
                w' = [w EXCEPT !.end = end, !.m = m,
                        !.calls = Append(@, c), !.res = @ - c.value]
    /\ UNCHANGED WalkIdle

\* Leaving the second loop: return res
WalkReturn ==
    /\ w.pc = "next"
    /\ ~(w.end > w.q[w.m])
    /\ w' = [w EXCEPT !.pc = "done"]
    /\ UNCHANGED WalkIdle

(***************************************************************************)
(* part_004 (adxl345) and accel_values.c: adxl345_measure                  *)
(***************************************************************************)

\* ADXL345 registers, values and flags
POWER_CTL == 45
MULTI_BYTE == 64
READ_BIT == 128
MEASURE_MODE == 8
STANDBY_MODE == 0
DATAX0 == 50
READ_RATE == 3200

\* buf[0] of a register write and of a read of DATAX0; the flags are bits the
\* register addresses do not have, so | adds them
WriteCommand(reg) == reg + MULTI_BYTE
ReadCommand(reg) == reg + READ_BIT + MULTI_BYTE

\* What pigpio's spi_write of 2 bytes and spi_xfer of 7 bytes return: the
\* number of bytes transferred, or a short count, or a negative error code
SpiWriteResults == {2, 1, -89}
SpiXferResults == {7, 3, -89}

\* accel_values_alloc(n): the struct and its four zeroed arrays
accel_values_alloc(n) ==
    [null |-> FALSE, n |-> n, frees |-> 0,
     t |-> [i \in 1..n |-> 0], ax |-> [i \in 1..n |-> 0],
     ay |-> [i \in 1..n |-> 0], az |-> [i \in 1..n |-> 0]]

\* accel_values_free(acc)
accel_values_free(acc) ==
    IF acc = NULL THEN acc ELSE [acc EXCEPT !.frees = @ + 1]

\* adxl345_read: the spi_xfer it makes and its return value
adxl345_read(res) ==
    [transfer |-> [op |-> "spi_xfer", buf |-> <<ReadCommand(DATAX0)>>, count |-> 7,
                   res |-> res],
     ret |-> IF res # 7 THEN res ELSE 0]

\* spi_write(acc->pi, acc->handle, buf, 2) with buf = {reg | MULTI_BYTE, val}
spi_write(reg, val, res) ==
    [op |-> "spi_write", buf |-> <<WriteCommand(reg), val>>, count |-> 2, res |-> res]

\* ceil(duration * READ_RATE) for a duration num / den seconds, den > 0
CeilTimesRate(duration) == 0 - ((0 - duration.num * READ_RATE) \div duration.den)

\* Durations in half sample periods, from negative to MaxSamples samples
MaxSamples == 3
Durations == [num : (0 - 2)..(2 * MaxSamples), den : {2 * READ_RATE}]

AdxlIdle == <<sm_out, sa, sa_op, es, tq, es_op, w, iw, kh>>

\* adxl345_measure up to the first transfer (part_004:62-69)
AdxlMeasureBegin ==
    /\ adxl.pc = "idle"
    /\ \E duration \in Durations :
          LET n == CeilTimesRate(duration) IN
          IF n <= 0
          THEN adxl' = [pc |-> "done", duration |-> duration, n |-> n, i |-> 0,
                        spi |-> <<>>, values |-> NULL, ret |-> "NULL"]
          ELSE adxl' = [pc |-> "measure_write", duration |-> duration, n |-> n,
                        i |-> 0, spi |-> <<>>, values |-> accel_values_alloc(n),
                        ret |-> "none"]
    /\ UNCHANGED AdxlIdle

\* The write of MEASURE_MODE to POWER_CTL (part_004:70-71)
AdxlMeasureModeWrite ==
    /\ adxl.pc = "measure_write"
    /\ \E res \in SpiWriteResults :
          adxl' = [adxl EXCEPT
                     !.spi = Append(@, spi_write(POWER_CTL, MEASURE_MODE, res)),
                     !.pc = IF res # 2 THEN "transfer_error" ELSE "cold_read"]
    /\ UNCHANGED AdxlIdle

\* The cold read (part_004:74-76)
AdxlColdRead ==
    /\ adxl.pc = "cold_read"
    /\ \E res \in SpiXferResults :
          LET r == adxl345_read(res) IN
          adxl' = [adxl EXCEPT
                     !.spi = Append(@, r.transfer),
                     !.pc = IF r.ret # 0 THEN "transfer_error" ELSE "loop"]
    /\ UNCHANGED AdxlIdle

\* One iteration of the sample loop (part_004:77-89); a stored sample is
\* marked by its number
AdxlSampleRead ==
    /\ adxl.pc = "loop"
    /\ adxl.i < adxl.n
    /\ \E res \in SpiXferResults :
          LET r == adxl345_read(res)
              k == adxl.i + 1
          IN  IF r.ret # 0
              THEN adxl' = [adxl EXCEPT !.spi = Append(@, r.transfer),
                                        !.pc = "transfer_error"]
              ELSE adxl' = [adxl EXCEPT !.spi = Append(@, r.transfer),
                                        !.values.ax[k] = k,
                                        !.values.ay[k] = k,
                                        !.values.az[k] = k,
                                        !.values.t[k] = k,
                                        !.i = k]
    /\ UNCHANGED AdxlIdle

\* After the loop: the write of STANDBY_MODE and the return (part_004:91-95)
AdxlStandbyWrite ==
    /\ adxl.pc = "loop"
    /\ ~(adxl.i < adxl.n)
    /\ \E res \in SpiWriteResults :
          adxl' = [adxl EXCEPT
                     !.spi = Append(@, spi_write(POWER_CTL, STANDBY_MODE, res)),
                     !.pc = IF res # 2 THEN "transfer_error" ELSE "done",
                     !.ret = IF res # 2 THEN @ ELSE "values"]
    /\ UNCHANGED AdxlIdle

\* transfer_error without the write of STANDBY_MODE
AdxlTransferError_no_standby ==
    /\ adxl.pc = "transfer_error"
    /\ adxl' = [adxl EXCEPT !.values = accel_values_free(@),
                            !.pc = "done",
                            !.ret = "NULL"]
    /\ UNCHANGED AdxlIdle

\* transfer_error (part_004:97-103): the result of the write is not looked at
AdxlTransferError ==
    /\ adxl.pc = "transfer_error"
    /\ \E res \in SpiWriteResults :
          adxl' = [adxl EXCEPT
                     !.spi = Append(@, spi_write(POWER_CTL, STANDBY_MODE, res)),
                     !.values = accel_values_free(@),
                     !.pc = "done",
                     !.ret = "NULL"]
    /\ UNCHANGED AdxlIdle

(***************************************************************************)
(* Specifications: one per component; the others stay as constructed.      *)
(***************************************************************************)

Init ==
    /\ sm_out = [called |-> FALSE]
    /\ sa = smooth_axis_alloc
    /\ sa_op = [name |-> "alloc"]
    /\ es = extruder_stepper_alloc
    /\ tq = <<>>
    /\ es_op = [name |-> "alloc"]
    /\ w = [pc |-> "idle"]
    /\ iw = [name |-> "none"]
    /\ kh = [sa |-> [h \in Handles |-> smooth_axis_alloc],
             ptr |-> [h \in Handles |-> [x_smoother |-> 0, y_smoother |-> 0]],
             allocs |-> <<>>,
             stale |-> FALSE]
    /\ adxl = [pc |-> "idle"]

NextCatalog == AllocSmoother
SpecCatalog == Init /\ [][NextCatalog]_vars

NextKernels == KernelSetParams \/ KernelGetHalfSmoothTime \/ KernelSetSk \/ KernelQuery
SpecKernels == Init /\ [][NextKernels]_vars

NextAdxl ==
    \/ AdxlMeasureBegin
    \/ AdxlMeasureModeWrite
    \/ AdxlColdRead
    \/ AdxlSampleRead
    \/ AdxlStandbyWrite
    \/ AdxlTransferError
SpecAdxl == Init /\ [][NextAdxl]_vars

NextIntegrate == IntegrateWeighted
SpecIntegrate == Init /\ [][NextIntegrate]_vars

NextAxis == SetSk \/ SetParams \/ GetHalfSmoothTime \/ CalcPosition
SpecAxis == Init /\ [][NextAxis]_vars

NextExtruder == ExtruderSetSmoothTime \/ ExtruderAddMove \/ ExtruderCalcPosition
SpecExtruder == Init /\ [][NextExtruder]_vars

NextWalk ==
    \/ RangeIntegrateBegin
    \/ PaRangeIntegrateBegin
    \/ WalkPrev
    \/ WalkPrevDone
    \/ WalkNext
    \/ WalkReturn
SpecWalk == Init /\ [][NextWalk]_vars

\* A call of range_integrate or pa_range_integrate runs to completion: each
\* step of the function is taken once it is enabled.
SpecWalkFair ==
    /\ SpecWalk
    /\ WF_vars(WalkPrev)
    /\ WF_vars(WalkPrevDone)
    /\ WF_vars(WalkNext)
    /\ WF_vars(WalkReturn)

(***************************************************************************)
(* Properties                                                              *)
(***************************************************************************)

Max(S) == CHOOSE v \in S : \A u \in S : u <= v

\* C1: alloc_smoother produces no kernel for an unknown family tag: for every
\* smoother_type outside SIFP05..DFAF01 (0, negative values and values above
\* 6 included) it returns NULL and invokes no init callback.
C1_UnknownTagNoKernel ==
    (sm_out.called /\ sm_out.smoother_type \notin SIFP05..DFAF01)
        => /\ sm_out.res.outcome = "returned"
           /\ sm_out.res.ret = NULL
           /\ sm_out.res.init_cb = "none"

\* The dispatch variant smooth_axis_set_sk is to install for the axes used
VariantFor(flags) ==
    IF AF_X \in flags /\ AF_Y \in flags THEN "smooth_xy_calc_position"
    ELSE IF AF_X \in flags THEN "smooth_x_calc_position"
    ELSE "smooth_y_calc_position"

\* C2: smooth_axis_set_sk returns non-zero if and only if orig_sk's
\* active_flags contain neither AF_X nor AF_Y; otherwise it returns 0,
\* installs the variant matching the axes used (XY, X-only, Y-only) and
\* records orig_sk and its active_flags in the handle.
C2_SetSkResult ==
    sa_op.name = "set_sk" =>
        LET flags == sa_op.orig_sk.active_flags IN
        /\ (sa_op.ret # 0) <=> (AF_X \notin flags /\ AF_Y \notin flags)
        /\ (AF_X \in flags \/ AF_Y \in flags) =>
              /\ sa_op.ret = 0
              /\ sa.sk.calc_position_cb = VariantFor(flags)
              /\ sa.orig_sk = sa_op.orig_sk
              /\ sa.sk.active_flags = flags

\* C2 witness: set_sk succeeded for an inner kinematics using X, Y and Z and
\* for the handle the XY variant is installed.
C2_Witness ==
    /\ sa_op.name = "set_sk"
    /\ sa_op.ret = 0
    /\ sa_op.orig_sk.active_flags = {AF_X, AF_Y, AF_Z}
    /\ sa.sk.calc_position_cb = "smooth_xy_calc_position"

\* C3: a failing smooth_axis_set_sk call leaves the handle as it was:
\* calc_position_cb, active_flags, orig_sk, both kernels, the scratch move
\* and both margins are unchanged, whatever calls preceded it.
C3_FailedSetSkKeepsHandle ==
    [][(sa_op'.name = "set_sk" /\ sa_op'.ret # 0) => sa' = sa]_vars

\* C3 witness: set_sk has failed on a handle that had an inner kinematics,
\* a kernel, non-zero margins and a written scratch move.
C3_Witness ==
    /\ sa_op.name = "set_sk"
    /\ sa_op.ret # 0
    /\ sa.orig_sk # NULL
    /\ sa.orig_sk # sa_op.orig_sk
    /\ sa.x_smoother # NULL
    /\ sa.sk.gen_steps_pre_active > 0
    /\ sa.m.start_pos["x"] # Raw(0)

\* The hst of the kernels of the handle's active axes
ActiveHsts(h) ==
    {h.x_smoother.hst : a \in {a \in {AF_X} :
                                 a \in h.sk.active_flags /\ h.x_smoother # NULL}}
    \cup
    {h.y_smoother.hst : a \in {a \in {AF_Y} :
                                 a \in h.sk.active_flags /\ h.y_smoother # NULL}}

LargestActiveHst(h) == IF ActiveHsts(h) = {} THEN 0 ELSE Max(ActiveHsts(h))

\* C4: in every state reachable from smooth_axis_alloc by set_sk and
\* set_params calls, gen_steps_pre_active equals gen_steps_post_active and
\* both equal the largest hst among the axes that are active and have a
\* kernel, or 0 when there is none; also after set_sk changed the active axes.
C4_MarginsFollowActiveKernels ==
    /\ sa.sk.gen_steps_pre_active = sa.sk.gen_steps_post_active
    /\ sa.sk.gen_steps_pre_active = LargestActiveHst(sa)

\* What C5 states about the kernels and the margins right after set_params
C5_KernelsAndMargins ==
    /\ (sa.x_smoother = NULL) <=> (sa_op.target_freq_x = 0)
    /\ (sa.y_smoother = NULL) <=> (sa_op.target_freq_y = 0)
    /\ sa_op.target_freq_x # 0 =>
          /\ sa.x_smoother.target_freq = sa_op.target_freq_x
          /\ sa.x_smoother.damping_ratio = sa_op.damping_ratio_x
          /\ sa.x_smoother.hst =
                smooth_axis_get_half_smooth_time(sa_op.target_freq_x,
                                                 sa_op.damping_ratio_x)
    /\ sa_op.target_freq_y # 0 =>
          /\ sa.y_smoother.target_freq = sa_op.target_freq_y
          /\ sa.y_smoother.damping_ratio = sa_op.damping_ratio_y
          /\ sa.y_smoother.hst =
                smooth_axis_get_half_smooth_time(sa_op.target_freq_y,
                                                 sa_op.damping_ratio_y)
    /\ sa.sk.gen_steps_pre_active = LargestActiveHst(sa)
    /\ sa.sk.gen_steps_post_active = LargestActiveHst(sa)

\* C5 as stated: right after smooth_axis_set_params the X (Y) kernel is absent
\* exactly when f_x (f_y) = 0, a non-zero frequency installs a kernel built
\* for that frequency and damping ratio, both margins equal the maximum hst
\* of the active axes' kernels, and with f_x = 0 and f_y > 0 the margins
\* equal the half-smooth-time of the Y kernel.
C5_Original ==
    sa_op.name = "set_params" =>
        /\ C5_KernelsAndMargins
        /\ (sa_op.target_freq_x = 0 /\ sa_op.target_freq_y > 0) =>
              /\ sa.sk.gen_steps_pre_active = sa.y_smoother.hst
              /\ sa.sk.gen_steps_post_active = sa.y_smoother.hst

\* C5 amended: as C5, but with f_x = 0 and f_y > 0 the margins equal the
\* half-smooth-time of the Y kernel when AF_Y is among the handle's
\* active_flags, and 0 when it is not.
C5_Amended ==
    sa_op.name = "set_params" =>
        /\ C5_KernelsAndMargins
        /\ (sa_op.target_freq_x = 0 /\ sa_op.target_freq_y > 0) =>
              LET expected == IF AF_Y \in sa.sk.active_flags
                              THEN sa.y_smoother.hst ELSE 0
              IN  /\ sa.sk.gen_steps_pre_active = expected
                  /\ sa.sk.gen_steps_post_active = expected

\* C5 witness: set_params(0, f_y > 0) has returned on a handle whose inner
\* kinematics uses Y, and the margins are the Y kernel's hst.
C5_Witness ==
    /\ sa_op.name = "set_params"
    /\ sa_op.target_freq_x = 0
    /\ sa_op.target_freq_y > 0
    /\ AF_Y \in sa.sk.active_flags
    /\ sa.sk.gen_steps_pre_active = sa.y_smoother.hst
    /\ sa.y_smoother.hst > 0

\* Whether the installed variant has a kernel to apply
Applicable(h) ==
    \/ h.sk.calc_position_cb = "smooth_x_calc_position" /\ h.x_smoother # NULL
    \/ h.sk.calc_position_cb = "smooth_y_calc_position" /\ h.y_smoother # NULL
    \/ /\ h.sk.calc_position_cb = "smooth_xy_calc_position"
       /\ (h.x_smoother # NULL \/ h.y_smoother # NULL)

\* The scratch start_pos a query with an applicable kernel is to leave: the
\* smoothed coordinate on each axis of the variant that has a kernel, in the
\* XY variant the raw coordinate at move_time elsewhere, and otherwise what
\* the scratch move held.
ScratchAfter(h, m, move_time) ==
    LET cb == h.sk.calc_position_cb
        xy == cb = "smooth_xy_calc_position"
        base == IF xy THEN move_get_coord(m, move_time) ELSE h.m.start_pos
        handles(a) == xy \/ cb = (IF a = "x" THEN "smooth_x_calc_position"
                                             ELSE "smooth_y_calc_position")
        kernel(a) == IF a = "x" THEN h.x_smoother ELSE h.y_smoother
    IN  [a \in {"x", "y", "z"} |->
            IF a # "z" /\ handles(a) /\ kernel(a) # NULL
            THEN calc_position(m, a, move_time, kernel(a))
            ELSE base[a]]

\* C6: a query with no applicable kernel calls the inner kinematics exactly
\* once with the caller's move and move_time, returns its result and does
\* not write the scratch move; with an applicable kernel the inner
\* kinematics is called with the scratch move and DUMMY_T after the scratch
\* start_pos has been set to the smoothed coordinate of each axis (of the
\* variant) that has a kernel and, in the XY variant, to the raw coordinate
\* at move_time for an axis without one.
C6_QueryDispatch ==
    [][sa_op'.name = "calc_position" =>
        LET m == sa_op'.m
            t == sa_op'.move_time
        IN  IF ~Applicable(sa)
            THEN /\ sa_op'.calls = <<[m |-> m, move_time |-> t]>>
                 /\ sa_op'.ret = orig_calc_position(sa.orig_sk, m, t)
                 /\ sa'.m = sa.m
                 /\ sa' = sa
            ELSE /\ sa'.m.start_pos = ScratchAfter(sa, m, t)
                 /\ sa'.m.move_t = 2 * DUMMY_T
                 /\ sa_op'.calls = <<[m |-> sa'.m, move_time |-> DUMMY_T]>>
                 /\ sa_op'.ret = orig_calc_position(sa.orig_sk, sa'.m, DUMMY_T)
                 /\ sa' = [sa EXCEPT !.m = sa'.m]
    ]_vars

\* C6 witness: a query has run through the XY variant with a Y kernel and no
\* X kernel: the inner kinematics got the scratch move at DUMMY_T, holding
\* the raw X and the smoothed Y.
C6_Witness ==
    /\ sa_op.name = "calc_position"
    /\ sa.sk.calc_position_cb = "smooth_xy_calc_position"
    /\ sa.x_smoother = NULL
    /\ sa.y_smoother # NULL
    /\ sa_op.calls = <<[m |-> sa.m, move_time |-> DUMMY_T]>>
    /\ sa.m.start_pos["x"] = move_get_coord(sa_op.m, sa_op.move_time)["x"]
    /\ sa.m.start_pos["y"] =
          calc_position(sa_op.m, "y", sa_op.move_time, sa.y_smoother)

\* Global time of a move's local time 0, and the unit cells of global time
\* that a call integrates
GlobalStart(q, m) == SumMoveT(q, 1, m - 1)
CallCells(q, c) == {GlobalStart(q, c.m) + k : k \in c.start..(c.end - 1)}

RECURSIVE SumCallLengths(_)
SumCallLengths(calls) ==
    IF calls = <<>> THEN 0
    ELSE (Head(calls).end - Head(calls).start) + SumCallLengths(Tail(calls))

\* C7: for a query at 0 <= t <= m.move_t on a queue of moves with move_t > 0
\* that holds enough neighbours, the per-move intervals integrated by
\* range_integrate (and pa_range_integrate), mapped to global time, tile the
\* window [t - h, t + h] exactly: every instant of the window is integrated
\* in exactly one move, no interval lies outside [0, move_t] of its move,
\* each interval has start <= end, and the lengths sum to 2h.
C7_WindowTiled ==
    w.pc = "done" =>
        LET T == GlobalStart(w.q, w.m0) + w.move_time
            window == (T - w.hst)..(T + w.hst - 1)
            idx == 1..Len(w.calls)
        IN  /\ \A i \in idx :
                  /\ 0 <= w.calls[i].start
                  /\ w.calls[i].start <= w.calls[i].end
                  /\ w.calls[i].end <= w.q[w.calls[i].m]
                  /\ CallCells(w.q, w.calls[i]) \subseteq window
            /\ \A g \in window :
                  Cardinality({i \in idx : g \in CallCells(w.q, w.calls[i])}) = 1
            /\ SumCallLengths(w.calls) = 2 * w.hst

\* C7 witness: range_integrate has returned after walking over two previous
\* moves and one next move.
C7_Witness ==
    /\ w.pc = "done"
    /\ w.fn = "range_integrate"
    /\ w.prev = w.m0 - 2
    /\ w.m = w.m0 + 1
    /\ Len(w.calls) = 4

\* The value extruder_calc_position falls back to
NominalPosition(m, move_time) ==
    Raw(m.start_pos["x"] + move_get_distance(m, move_time))

\* C8 as stated: extruder_calc_position falls back to start_pos.x +
\* move_get_distance(m, t), without integrating over the move queue, whenever
\* the half-smooth-time is zero or the move's pressure-advance factor
\* (axes_r.y) is zero.
C8_Original ==
    (es_op.name = "calc_position"
        /\ (es.half_smooth_time = 0 \/ es_op.m.axes_r["y"] = 0))
        => /\ es_op.ret = NominalPosition(es_op.m, es_op.move_time)
           /\ es_op.integrations = <<>>

\* C8 amended: extruder_calc_position falls back to start_pos.x +
\* move_get_distance(m, t), without integrating over the move queue, whenever
\* the half-smooth-time is zero; with a non-zero half-smooth-time it
\* integrates over the move queue (pa_range_integrate, scaled by 1/hst^2)
\* also when the move's axes_r.y is zero.
C8_Amended ==
    es_op.name = "calc_position" =>
        IF es.half_smooth_time = 0
        THEN /\ es_op.ret = NominalPosition(es_op.m, es_op.move_time)
             /\ es_op.integrations = <<>>
        ELSE LET area == pa_range_integrate(es_op.m, es_op.move_time,
                                            es.half_smooth_time)
             IN  /\ es_op.integrations = <<area>>
                 /\ es_op.ret = [area |-> area,
                                 times |-> Quot(1, es.half_smooth_time
                                                    * es.half_smooth_time)]

\* C8 witness: a query fell back to the nominal position on an extruder
\* whose smooth time was set and then cleared, for a move with pressure
\* advance.
C8_Witness ==
    /\ es_op.name = "calc_position"
    /\ es.half_smooth_time = 0
    /\ es.inv_half_smooth_time2 # Quot(0, 1)
    /\ es_op.m.axes_r["y"] # 0
    /\ es_op.move_time > 0
    /\ es_op.ret = NominalPosition(es_op.m, es_op.move_time)
    /\ es_op.integrations = <<>>

\* The move extruder_add_move has just appended
Appended == tq[Len(tq)]

\* C9 as stated: whenever extruder_add_move is given an accel_decel whose
\* accel_comp is non-zero, the appended move starts at print_time +
\* uncomp_accel_offset_t - accel_offset_t, for every combination of
\* total_accel_t and total_decel_t.
C9_Original ==
    (es_op.name = "add_move" /\ es_op.accel_decel.accel_comp # 0)
        => Appended.print_time =
              es_op.print_time + es_op.accel_decel.uncomp_accel_offset_t
                               - es_op.accel_decel.accel_offset_t

\* C9 amended: the move extruder_add_move appends starts at print_time +
\* uncomp_accel_offset_t - accel_offset_t whenever total_accel_t is non-zero;
\* at print_time + uncomp_decel_offset_t - decel_offset_t when total_accel_t
\* is zero and total_decel_t is not; and at print_time when both are zero
\* (accel_comp is not consulted).
C9_Amended ==
    es_op.name = "add_move" =>
        LET ad == es_op.accel_decel IN
        Appended.print_time =
            IF ad.total_accel_t # 0
            THEN es_op.print_time + ad.uncomp_accel_offset_t - ad.accel_offset_t
            ELSE IF ad.total_decel_t # 0
            THEN es_op.print_time + ad.uncomp_decel_offset_t - ad.decel_offset_t
            ELSE es_op.print_time

\* C9 witness: a compensated trapezoid with both an acceleration and a
\* deceleration was added, and the move starts later than print_time by the
\* acceleration offsets' difference.
C9_Witness ==
    /\ es_op.name = "add_move"
    /\ es_op.accel_decel.accel_comp # 0
    /\ es_op.accel_decel.total_accel_t # 0
    /\ es_op.accel_decel.total_decel_t # 0
    /\ Appended.print_time # es_op.print_time
    /\ Appended.print_time =
          es_op.print_time + es_op.accel_decel.uncomp_accel_offset_t
                           - es_op.accel_decel.accel_offset_t

\* C10: the trapezoid extruder_add_move appends has acceleration compensation
\* removed (accel_comp = 0, accel_t / accel_offset_t / decel_t /
\* decel_offset_t set to their uncompensated counterparts), has
\* start_accel_v, cruise_v, effective_accel and effective_decel multiplied
\* by extrude_r, starts at (start_e_pos, 0, 0) and carries axis ratios
\* (1, pressure_advance, 0); the caller's accel_decel is left unchanged.
C10_AppendedTrapezoid ==
    es_op.name = "add_move" =>
        LET ad == es_op.accel_decel
            nd == Appended.accel_decel
        IN  /\ nd.accel_comp = 0
            /\ nd.accel_t = ad.uncomp_accel_t
            /\ nd.accel_offset_t = ad.uncomp_accel_offset_t
            /\ nd.decel_t = ad.uncomp_decel_t
            /\ nd.decel_offset_t = ad.uncomp_decel_offset_t
            /\ nd.start_accel_v = ad.start_accel_v * es_op.extrude_r
            /\ nd.cruise_v = ad.cruise_v * es_op.extrude_r
            /\ nd.effective_accel = ad.effective_accel * es_op.extrude_r
            /\ nd.effective_decel = ad.effective_decel * es_op.extrude_r
            /\ Appended.start_pos = [x |-> es_op.start_e_pos, y |-> 0, z |-> 0]
            /\ Appended.axes_r = [x |-> 1, y |-> es_op.pressure_advance, z |-> 0]
            /\ es_op.accel_decel_after = ad

\* C10 witness: a compensated trapezoid, whose compensated times differ from
\* the uncompensated ones, was added with pressure advance as the second
\* move of the queue.
C10_Witness ==
    /\ es_op.name = "add_move"
    /\ Len(tq) = 2
    /\ es_op.accel_decel.accel_comp # 0
    /\ es_op.accel_decel.decel_offset_t # es_op.accel_decel.uncomp_decel_offset_t
    /\ es_op.accel_decel.accel_t # es_op.accel_decel.uncomp_accel_t
    /\ es_op.pressure_advance # 0
    /\ Appended.accel_decel.accel_comp = 0
    /\ Appended.accel_decel.cruise_v # es_op.accel_decel.cruise_v

WalkExtruderReturn ==
    LET e == extruder_set_smooth_time(extruder_stepper_alloc, 2 * w.hst)
    IN  [area |-> w.res, times |-> e.inv_half_smooth_time2]

\* ret = p, for the return value above and a position p
ReturnEquals(ret, p) == ret.area * ret.times.num = 6 * p * ret.times.den

\* C12 as claimed: on a cruise trajectory of velocity V that covers the whole
\* window, with pressure advance alpha > 0 and h > 0, extruder_calc_position
\* returns the nominal position start_pos + V * t.
C12_Original ==
    (/\ w.pc = "done"
     /\ w.fn = "pa_range_integrate"
     /\ w.traj.pressure_advance > 0) =>
        LET m == ExtruderMove(w.q, w.m0, w.traj) IN
        ReturnEquals(WalkExtruderReturn,
                     m.start_pos.x + w.traj.cruise_v * w.move_time)

\* C12 amended: on such a trajectory extruder_calc_position returns the
\* nominal position plus alpha * V: the pressure-advance term contributes the
\* constant alpha * V at cruise.
C12_Amended ==
    (/\ w.pc = "done"
     /\ w.fn = "pa_range_integrate"
     /\ w.traj.pressure_advance > 0) =>
        LET m == ExtruderMove(w.q, w.m0, w.traj) IN
        ReturnEquals(WalkExtruderReturn,
                     m.start_pos.x + w.traj.cruise_v * w.move_time
                         + w.traj.pressure_advance * w.traj.cruise_v)

\* C12 witness: a query in the middle of a cruise at V > 0 with alpha > 0
\* whose window reaches into a previous and a next move.
C12_Witness ==
    /\ w.pc = "done"
    /\ w.fn = "pa_range_integrate"
    /\ w.traj.pressure_advance > 0
    /\ w.traj.cruise_v > 0
    /\ w.move_time > 0
    /\ w.prev < w.m0
    /\ w.m > w.m0

\* C13: in range_integrate the time offset handed to the integrator for a
\* visited move converts the move's local time into time relative to the
\* query instant: tau + offset = (global time of tau) - (global time of the
\* query).  It is -t for the current move, -t minus the durations of the
\* previous moves walked so far for a previous move, and -t plus the durations
\* of the current move and of the next moves already passed for a next move.
C13_OffsetRelativeToQuery ==
    w.pc # "idle" /\ w.fn = "range_integrate" =>
        LET T == GlobalStart(w.q, w.m0) + w.move_time IN
        \A i \in 1..Len(w.calls) :
            LET c == w.calls[i] IN
            /\ \A tau \in 0..w.q[c.m] :
                  tau + c.time_offset = (GlobalStart(w.q, c.m) + tau) - T
            /\ c.m = w.m0 => c.time_offset = 0 - w.move_time
            /\ c.m < w.m0 =>
                  c.time_offset = 0 - w.move_time - SumMoveT(w.q, c.m, w.m0 - 1)
            /\ c.m > w.m0 =>
                  c.time_offset = 0 - w.move_time + SumMoveT(w.q, w.m0, c.m - 1)

\* C13 witness: range_integrate has returned after integrating one previous
\* move and then two next moves.
C13_Witness ==
    /\ w.pc = "done"
    /\ w.fn = "range_integrate"
    /\ w.prev = w.m0 - 1
    /\ w.m = w.m0 + 2
    /\ w.calls[2].time_offset < 0 - w.move_time
    /\ w.calls[4].time_offset > w.calls[3].time_offset

\* Points at which two quadratics are compared (three suffice)
QuadraticPoints == -3..3

\* C14: integrate_weighted folds toff into the quadratic: the coefficients
\* (a0, a1, a2) and bounds it passes to integrate_cb satisfy
\* a0 + a1 u + a2 u^2 = pos + start_v (u - toff) + half_accel (u - toff)^2 for
\* every u, the bounds are start + toff and end + toff, and the smoother is the
\* one passed in, unmodified.
C14_ToffFolded ==
    iw.name = "integrate_weighted" =>
        LET c == iw.res.call IN
        /\ \A u \in QuadraticPoints :
              c.a0 + c.a1 * u + c.a2 * u * u =
                  iw.pos + iw.start_v * (u - iw.toff)
                         + iw.half_accel * (u - iw.toff) * (u - iw.toff)
        /\ c.start = iw.start + iw.toff
        /\ c.end = iw.end + iw.toff
        /\ c.cb = iw.sm.integrate_cb
        /\ c.sm = iw.sm
        /\ iw.res.sm = iw.sm

\* C14 witness: a call with a non-zero toff on a quadratic with velocity and
\* acceleration, over a non-empty interval.
C14_Witness ==
    /\ iw.name = "integrate_weighted"
    /\ iw.toff # 0
    /\ iw.start_v # 0
    /\ iw.half_accel # 0
    /\ iw.start < iw.end
    /\ iw.res.call.a0 # iw.pos
    /\ iw.res.call.a1 # iw.start_v

\* The kernel pointers of handle h that are not null
KernelPointers(h) == {kh.ptr[h].x_smoother, kh.ptr[h].y_smoother} \ {0}

\* C15: after any sequence of smooth_axis_set_params calls on the handles,
\* with queries only between calls, each kernel pointer of a handle is NULL or
\* refers to a live kernel that this handle allocated and no other pointer
\* refers to; every kernel that was replaced or cleared has been freed exactly
\* once; the live kernels allocated for a handle are as many as its non-NULL
\* kernel pointers; no query read a freed kernel; and
\* smooth_axis_get_half_smooth_time leaves no kernel allocated.
C15_KernelsOwned ==
    LET ids == 1..Len(kh.allocs) IN
    /\ ~kh.stale
    /\ \A h \in Handles :
          LET px == kh.ptr[h].x_smoother
              py == kh.ptr[h].y_smoother
          IN  /\ \A p \in KernelPointers(h) :
                    /\ p \in ids
                    /\ kh.allocs[p].frees = 0
                    /\ kh.allocs[p].by = h
                    /\ \A g \in Handles \ {h} : p \notin KernelPointers(g)
              /\ (px # 0 /\ py # 0) => px # py
              /\ Cardinality({i \in ids : kh.allocs[i].by = h /\ kh.allocs[i].frees = 0})
                    = (IF px # 0 THEN 1 ELSE 0) + (IF py # 0 THEN 1 ELSE 0)
              /\ (px = 0) <=> (kh.sa[h].x_smoother = NULL)
              /\ (py = 0) <=> (kh.sa[h].y_smoother = NULL)
              /\ px # 0 => kh.allocs[px].sm = kh.sa[h].x_smoother
              /\ py # 0 => kh.allocs[py].sm = kh.sa[h].y_smoother
    /\ \A i \in ids :
          /\ kh.allocs[i].frees <= 1
          /\ (kh.allocs[i].frees = 1) <=> (\A h \in Handles : i \notin KernelPointers(h))
          /\ kh.allocs[i].by = 0 => kh.allocs[i].frees = 1

\* C15 witness: handle 1 holds two live kernels after one of its kernels was
\* replaced, handle 2 holds a kernel of its own, and a query ran on handle 1.
C15_Witness ==
    /\ kh.ptr[1].x_smoother # 0
    /\ kh.ptr[1].y_smoother # 0
    /\ \E i \in 1..Len(kh.allocs) : kh.allocs[i].by = 1 /\ kh.allocs[i].frees = 1
    /\ KernelPointers(2) # {}
    /\ kh.sa[1].m.start_pos["x"] = calc_position(CHOOSE m \in QueryMoves : TRUE, "x", 2,
                                                 kh.sa[1].x_smoother)

\* The calls of the running walk on previous and on next moves, in the order
\* they were made
IsPrevCall(c) == c.m < w.m0
IsNextCall(c) == c.m > w.m0
PrevCalls == SelectSeq(w.calls, IsPrevCall)
NextCalls == SelectSeq(w.calls, IsNextCall)

\* The neighbours visited so far: the k-th previous move visited is the k-th
\* move before the current one and overlaps [t - h, t]; the k-th next move
\* visited is the k-th move after it and overlaps [t, t + h]; the forward walk
\* starts after the backward walk.
WalkVisitsOk ==
    w.pc # "idle" =>
        LET T == GlobalStart(w.q, w.m0) + w.move_time
            Overlaps(m, lo, hi) ==
                /\ GlobalStart(w.q, m) < hi
                /\ GlobalStart(w.q, m) + w.q[m] > lo
        IN  /\ \A k \in 1..Len(PrevCalls) :
                  /\ PrevCalls[k].m = w.m0 - k
                  /\ Overlaps(PrevCalls[k].m, T - w.hst, T)
            /\ \A k \in 1..Len(NextCalls) :
                  /\ NextCalls[k].m = w.m0 + k
                  /\ Overlaps(NextCalls[k].m, T, T + w.hst)
            /\ \A i, j \in 1..Len(w.calls) :
                  (IsNextCall(w.calls[i]) /\ IsPrevCall(w.calls[j])) => j < i
            /\ w.pc = "prev" => NextCalls = <<>>

\* C16: the backward and forward walks of range_integrate and
\* pa_range_integrate terminate: with every move_t > 0 and 0 <= t <= m.move_t
\* the backward loop ends, then the forward loop ends and the function
\* returns, having visited only neighbours that overlap [t - h, t]
\* (backward) and [t, t + h] (forward), each once and in queue order.
C16_WalksTerminate ==
    /\ []WalkVisitsOk
    /\ (w.pc = "prev") ~> (w.pc = "next")
    /\ (w.pc = "next") ~> (w.pc = "done")

\* C16 witness: pa_range_integrate has returned after visiting two previous
\* moves and one next move.
C16_Witness ==
    /\ w.pc = "done"
    /\ w.fn = "pa_range_integrate"
    /\ Len(PrevCalls) = 2
    /\ Len(NextCalls) = 1

\* A transfer of adxl345_measure failed: fewer bytes than asked for, or an
\* error code
TransferFailed(x) == x.res # x.count
IsStandbyWrite(x) ==
    x.op = "spi_write" /\ x.buf = <<WriteCommand(POWER_CTL), STANDBY_MODE>>

====
